---- MODULE Spec2Model ----
(***************************************************************************)
(* The katcp type registry of katcp/ktype.c: a sorted, dynamically resized *)
(* array of type descriptors (struct katcp_type) hanging off the shared    *)
(* state (s_type, s_type_count), each descriptor owning an ordered map     *)
(* (avltree) of key -> opaque value and five behaviour callbacks.          *)
(*                                                                         *)
(* C strings are sequences of bytes, a slot of the array is the descriptor *)
(* it points to, function pointers are small integers compared by         *)
(* identity, and C array index i is sequence index i + 1.                  *)
(***************************************************************************)
EXTENDS Integers, Sequences, FiniteSets, TLC

NULL == 0

\* ---- bounds of the model ----
MaxEntries == 2     \* cap on the entries all stores hold together (Spec, SpecCallbacks)
MaxStored == 3      \* the same cap for SpecStore
MaxTypes == 2       \* cap on count where slots can pile up (SpecAt, SpecAlloc)
NumValues == 1      \* distinct non-NULL value objects a caller can hand over

Names == {<<1>>, <<1, 1>>, <<2>>}      \* type names "a", "aa", "b"
Keys == {<<1>>, <<2>>}                 \* store keys "a", "b"
Values == 0..NumValues                 \* d_data: NULL or a value object

NoCallbacks ==
  [fn_print |-> NULL, fn_free |-> NULL, fn_copy |-> NULL,
   fn_compare |-> NULL, fn_parse |-> NULL]

\* The callback sets a caller may supply (a function pointer is NULL or the
\* address of a function): all unset, or exactly one of the five set.
AllCallbackSets ==
  {NoCallbacks,
   [NoCallbacks EXCEPT !.fn_print = 1], [NoCallbacks EXCEPT !.fn_free = 1],
   [NoCallbacks EXCEPT !.fn_copy = 1], [NoCallbacks EXCEPT !.fn_compare = 1],
   [NoCallbacks EXCEPT !.fn_parse = 1]}

\* ... and the two of them that differ in how a value is released
CallbackSets == {NoCallbacks, [NoCallbacks EXCEPT !.fn_free = 1]}

VARIABLES
  s_type,        \* s->s_type: [st, slots]: the array's state ("null", "valid",
                 \* "freed") and the descriptors its slots point to
  s_type_count,  \* s->s_type_count
  ret,           \* the last operation: its name, arguments and result
  freed,         \* Values -> number of free-callback invocations in the last operation
  fault,         \* TRUE once an invalid memory access has happened
  failed,        \* the allocation that failed in the last operation, or "none"
  leaked,        \* the blocks the last operation allocated and left unreferenced
  called,        \* history: the names register_by_name was called with (SpecRegister)
  stored         \* history: the <<type, key>> pairs of the successful stores (SpecStore)

vars == <<s_type, s_type_count, ret, freed, fault, failed, leaked, called, stored>>

\* ---- ordered map ADT (avltree.h), modelled at its interface ----
\* A tree is the set of its nodes [key, data]; keys are unique in it.
create_avltree == [null |-> FALSE, nodes |-> {}]

NoTree == [null |-> TRUE, nodes |-> {}]

create_node_avltree(key, data) == [key |-> key, data |-> data]

\* add_node_avltree(): -1 when the key is present, else the tree with the node
add_node_avltree(at, an) ==
  IF \E n \in at.nodes : n.key = an.key
    THEN [rv |-> -1, tree |-> at]
    ELSE [rv |-> 0, tree |-> [at EXCEPT !.nodes = @ \cup {an}]]

\* find_name_node_avltree() then get_node_data_avltree(): NULL when absent
find_data_avltree(at, key) ==
  IF \E n \in at.nodes : n.key = key
    THEN (CHOOSE n \in at.nodes : n.key = key).data
    ELSE NULL

NoFrees == [v \in Values |-> 0]

\* free_node_avltree(an, d_free): the value goes through d_free when it is set
free_node_avltree(an, d_free) ==
  [v \in Values |-> IF d_free # NULL /\ v = an.data THEN 1 ELSE 0]

\* destroy_avltree(at, d_free): every entry is released via d_free, once
destroy_avltree(at, d_free) ==
  [v \in Values |->
     IF d_free # NULL /\ ~at.null
       THEN Cardinality({n \in at.nodes : n.data = v})
       ELSE 0]

\* ---- strcmp(3): byte-wise comparison ----
RECURSIVE strcmp(_, _)
strcmp(a, b) ==
  IF a = <<>> /\ b = <<>> THEN 0
  ELSE IF a = <<>> THEN 0 - Head(b)
  ELSE IF b = <<>> THEN Head(a)
  ELSE IF Head(a) # Head(b) THEN Head(a) - Head(b)
  ELSE strcmp(Tail(a), Tail(b))

\* print_inorder_avltree(): the keys in ascending order
RECURSIVE inorder_keys(_)
inorder_keys(ks) ==
  IF ks = {} THEN <<>>
  ELSE LET m == CHOOSE k \in ks : \A o \in ks : strcmp(k, o) <= 0
       IN <<m>> \o inorder_keys(ks \ {m})

print_inorder_avltree(at) == inorder_keys({n.key : n \in at.nodes})

\* ---- struct katcp_type ----
\* create_type_katcp(): every field NULL
create_type_katcp ==
  [t_name |-> <<>>, t_tree |-> NoTree,
   t_print |-> NULL, t_free |-> NULL, t_copy |-> NULL,
   t_compare |-> NULL, t_parse |-> NULL]

\* destroy_type_katcp(t): the free-callback invocations it makes; the tree,
\* when there still is one, is destroyed with the type's free callback
destroy_type_katcp(t) ==
  IF t.t_tree.null THEN NoFrees ELSE destroy_avltree(t.t_tree, t.t_free)

\* ts[i] can be read: the array is allocated and i is inside it
Readable(ts, i) == ts.st = "valid" /\ i >= 0 /\ i < Len(ts.slots)

\* ---- what a slot holds when it is not a live descriptor of its own ----
NullSlot == [slot |-> "null"]          \* NULL
AliasSlot == [slot |-> "alias"]        \* the pointer of the slot before it, once more
DanglingSlot == [slot |-> "dangling"]  \* a pointer to a destroyed descriptor

IsType(x) == "t_name" \in DOMAIN x

\* the index of the slot that holds the descriptor ts[i] points to
RECURSIVE Target(_, _)
Target(slots, i) ==
  IF i > 0 /\ slots[i + 1] = AliasSlot THEN Target(slots, i - 1) ELSE i

\* *ts[i]
Deref(slots, i) == slots[Target(slots, i) + 1]

\* ts[i] points to a live descriptor
Live(slots, i) == IsType(Deref(slots, i))

\* the slots that hold the pointer ts[pos] holds
Group(slots, pos) ==
  {k \in 0..(Len(slots) - 1) : Target(slots, k) = Target(slots, pos)}

\* ---- binary_search_type_list_katcp ----
\* the while (low <= high) loop and the return after it
RECURSIVE bsearch_loop_returns_low(_, _, _, _)
bsearch_loop_returns_low(ts, str, low, high) ==
  IF low > high THEN [fault |-> FALSE, rv |-> (-1) * low]
  ELSE LET mid == low + ((high - low) \div 2)
       IN IF ~Readable(ts, mid) \/ ~Live(ts.slots, mid)
            THEN [fault |-> TRUE, rv |-> -1]
          ELSE LET cmp == strcmp(str, Deref(ts.slots, mid).t_name)
               IN IF cmp = 0 THEN [fault |-> FALSE, rv |-> mid]
                  ELSE IF cmp < 0 THEN bsearch_loop_returns_low(ts, str, low, mid - 1)
                  ELSE bsearch_loop_returns_low(ts, str, mid + 1, high)

RECURSIVE bsearch_loop(_, _, _, _)
bsearch_loop(ts, str, low, high) ==
  IF low > high THEN [fault |-> FALSE, rv |-> (-1) * (low + 1)]
  ELSE LET mid == low + ((high - low) \div 2)
       IN IF ~Readable(ts, mid) \/ ~Live(ts.slots, mid)
            THEN [fault |-> TRUE, rv |-> -1]
          ELSE LET cmp == strcmp(str, Deref(ts.slots, mid).t_name)
               IN IF cmp = 0 THEN [fault |-> FALSE, rv |-> mid]
                  ELSE IF cmp < 0 THEN bsearch_loop(ts, str, low, mid - 1)
                  ELSE bsearch_loop(ts, str, mid + 1, high)

binary_search_type_list_katcp(ts, t_size, str) ==
  IF ts.st = "null" \/ t_size = 0
    THEN [fault |-> FALSE, rv |-> -1]
    ELSE bsearch_loop(ts, str, 0, t_size - 1)

\* ---- results of the operations on the shared state ----
Result(ts, cnt, rv, fr) ==
  [ts |-> ts, cnt |-> cnt, rv |-> rv, frees |-> fr, fault |-> FALSE, leak |-> {},
   failed |-> "none"]

\* an invalid memory access: the state is left as it was found
Crash(ts, cnt) ==
  [ts |-> ts, cnt |-> cnt, rv |-> -1, frees |-> NoFrees, fault |-> TRUE, leak |-> {},
   failed |-> "none"]

AddFrees(a, b) == [v \in Values |-> a[v] + b[v]]

\* ---- register_at_id_type_katcp ----
\* the new descriptor: create_type_katcp(), the name copied, an empty tree,
\* the five callbacks as supplied
new_type_swapped(tname, fn) ==
  [create_type_katcp EXCEPT
     !.t_name = tname, !.t_tree = create_avltree,
     !.t_print = fn.fn_print, !.t_free = fn.fn_free,
     !.t_copy = fn.fn_compare, !.t_compare = fn.fn_copy,
     !.t_parse = fn.fn_parse]

new_type(tname, fn) ==
  [create_type_katcp EXCEPT
     !.t_name = tname, !.t_tree = create_avltree,
     !.t_print = fn.fn_print, !.t_free = fn.fn_free,
     !.t_copy = fn.fn_copy, !.t_compare = fn.fn_compare,
     !.t_parse = fn.fn_parse]

\* the loop for (i = size; i > tid; i--) ts[i] = ts[i-1], then ts[i] = t:
\* the slots from tid on move one up and t takes slot tid (slot size when
\* tid is beyond it)
shift_insert_without_shift(slots, size, tid, t) ==
  [k \in 1..(size + 1) |->
     IF k - 1 = (IF tid < size THEN tid ELSE size) THEN t
     ELSE IF k <= size THEN slots[k]
     ELSE NullSlot]

shift_insert_at_end(slots, size, tid, t) ==
  [k \in 1..(size + 1) |-> IF k - 1 < size THEN slots[k] ELSE t]

shift_insert(slots, size, tid, t) ==
  LET i == IF tid < size THEN tid ELSE size
  IN [k \in 1..(size + 1) |->
        IF k - 1 < i THEN slots[k]
        ELSE IF k - 1 = i THEN t
        ELSE slots[k - 1]]

\* mem: how the allocations of a call go. oom is the first allocation that
\* fails ("array", "type", "name", "tree", "node") or "none"; moved says
\* that the realloc growing the array returns another block and releases
\* the old one
NoFailure == [oom |-> "none", moved |-> FALSE]

\* the return -1 after the array was grown: s->s_type has not been set to
\* the grown block. The blocks allocated since are released by
\* destroy_type_katcp(t); the grown block is unreferenced when it is not the
\* block s->s_type still points to
register_at_fails_late(ts, size, mem) ==
  LET allocated == CASE mem.oom = "type" -> {}
                     [] mem.oom = "name" -> {"type"}
                     [] mem.oom = "tree" -> {"type", "name"}
      released == allocated
      stale == ts.st = "valid" /\ mem.moved
  IN [Result(IF stale THEN [st |-> "freed", slots |-> <<>>] ELSE ts,
             size, -1, NoFrees)
        EXCEPT !.failed = mem.oom,
               !.leak = (allocated \ released)
                          \cup (IF stale \/ ts.st = "null" THEN {"array"} ELSE {})]

\* realloc to size + 1 slots, the new descriptor, the shift, count + 1; the
\* result is the index the descriptor went to. A negative tid makes the
\* loop run below the array.
register_at_id_type_katcp(ts, size, tid, tname, fn, mem) ==
  IF ts.st = "freed" THEN Crash(ts, size)
  ELSE IF mem.oom = "array"
    THEN [Result(ts, size, -1, NoFrees) EXCEPT !.failed = "array"]
  ELSE IF mem.oom \in {"type", "name", "tree"}
    THEN register_at_fails_late(ts, size, mem)
  ELSE IF tid < 0 THEN Crash(ts, size)
  ELSE Result([st |-> "valid",
               slots |-> shift_insert(ts.slots, size, tid, new_type(tname, fn))],
              size + 1, IF tid < size THEN tid ELSE size, NoFrees)

\* pos = (pos + 1) * (-1): the insertion position a failed search encodes
insert_position_no_increment(pos) == pos * (-1)

insert_position(pos) == (pos + 1) * (-1)

\* ---- register_name_type_katcp ----
register_name_accepts_first(ts, size, name, fn, mem) ==
  LET bs == binary_search_type_list_katcp(ts, size, name)
  IN IF bs.fault THEN Crash(ts, size)
     ELSE IF bs.rv > 0 THEN Result(ts, size, -1, NoFrees)
     ELSE register_at_id_type_katcp(ts, size, insert_position(bs.rv), name, fn, mem)

register_name_type_katcp(ts, size, name, fn, mem) ==
  LET bs == binary_search_type_list_katcp(ts, size, name)
  IN IF bs.fault THEN Crash(ts, size)
     ELSE IF bs.rv >= 0 THEN Result(ts, size, -1, NoFrees)
     ELSE register_at_id_type_katcp(ts, size, insert_position(bs.rv), name, fn, mem)

\* ---- deregister_type_katcp ----
\* the loop for (; pos < size - 1; pos++) ts[pos] = ts[pos + 1]: the slots
\* above pos move one down
shift_remove_keeps_pos(slots, size, pos) ==
  [k \in 1..(size - 1) |-> IF k - 1 <= pos THEN slots[k] ELSE slots[k + 1]]

shift_remove(slots, size, pos) ==
  [k \in 1..(size - 1) |-> IF k - 1 < pos THEN slots[k] ELSE slots[k + 1]]

\* zero_frees: realloc(ts, 0) releases ts and returns NULL (glibc), else it
\* returns a block of no slots. oom = "array": the realloc that shrinks the
\* array to size - 1 > 0 slots fails and leaves the block as the shift left
\* it: its last slot is NULL when the last descriptor was destroyed, and
\* else still holds the pointer that was copied one slot down
deregister_type_katcp(ts, size, name, zero_frees, oom) ==
  LET bs == binary_search_type_list_katcp(ts, size, name)
  IN IF bs.fault THEN Crash(ts, size)
     ELSE IF bs.rv < 0 THEN Result(ts, size, -1, NoFrees)
     ELSE
       LET pos == bs.rv
           fr == destroy_type_katcp(Deref(ts.slots, pos))
           destroyed == [k \in 1..size |->
                           IF k - 1 # pos /\ (k - 1) \in Group(ts.slots, pos)
                             THEN DanglingSlot ELSE ts.slots[k]]
           shifted == shift_remove(destroyed, size, pos)
           last == IF pos = size - 1 THEN NullSlot
                   ELSE IF IsType(destroyed[size]) THEN AliasSlot
                   ELSE destroyed[size]
       IN IF size - 1 = 0 /\ zero_frees
            THEN Result([st |-> "freed", slots |-> <<>>], size, -1, fr)
          ELSE IF size - 1 > 0 /\ oom = "array"
            THEN [Result([st |-> "valid", slots |-> shifted \o <<last>>],
                         size, -1, fr) EXCEPT !.failed = "array"]
          ELSE Result([st |-> "valid", slots |-> shifted], size - 1, 0, fr)

\* ---- store_data_type_katcp ----
\* the type's callbacks against the supplied ones, by identity
callbacks_differ_parse_unchecked(t, fn) ==
  \/ t.t_print # fn.fn_print \/ t.t_free # fn.fn_free
  \/ t.t_copy # fn.fn_copy \/ t.t_compare # fn.fn_compare

callbacks_differ(t, fn) ==
  \/ t.t_print # fn.fn_print \/ t.t_free # fn.fn_free
  \/ t.t_copy # fn.fn_copy \/ t.t_compare # fn.fn_compare
  \/ t.t_parse # fn.fn_parse

\* the node goes into the tree of ts[pos]; when add_node_avltree refuses it
\* the node is released, its value through fn_free, and the call fails
add_entry_replaces(ts, cnt, pos, at, an, fn) ==
  Result([ts EXCEPT !.slots[pos + 1].t_tree =
            [at EXCEPT !.nodes = {n \in @ : n.key # an.key} \cup {an}]],
         cnt, 0, NoFrees)

add_entry(ts, cnt, pos, at, an, fn) ==
  LET add == add_node_avltree(at, an)
  IN IF add.rv < 0
       THEN Result([ts EXCEPT !.slots[pos + 1].t_tree = at], cnt, -1,
                   free_node_avltree(an, fn.fn_free))
       ELSE Result([ts EXCEPT !.slots[pos + 1].t_tree = add.tree], cnt, 0, NoFrees)

store_data_type_katcp(ts, size, t_name, d_name, d_data, fn, mem) ==
  LET bs == binary_search_type_list_katcp(ts, size, t_name)
  IN IF bs.fault THEN Crash(ts, size)
     ELSE
       LET reg == IF bs.rv < 0
                    THEN register_at_id_type_katcp(ts, size, insert_position(bs.rv),
                                                   t_name, fn, mem)
                    ELSE Result(ts, size, bs.rv, NoFrees)
       IN IF reg.fault THEN Crash(ts, size)
          ELSE IF reg.rv < 0 THEN reg
          ELSE IF ~Readable(reg.ts, reg.rv) THEN Crash(reg.ts, reg.cnt)
          ELSE IF reg.ts.slots[reg.rv + 1] = NullSlot
            THEN Result(reg.ts, reg.cnt, -1, NoFrees)
          ELSE IF ~Live(reg.ts.slots, reg.rv) THEN Crash(reg.ts, reg.cnt)
          ELSE
            LET pos == Target(reg.ts.slots, reg.rv)
                t == reg.ts.slots[pos + 1]
            IN IF callbacks_differ(t, fn)
                 THEN Result(reg.ts, reg.cnt, -1, NoFrees)
                 ELSE
                   LET at == IF t.t_tree.null THEN create_avltree ELSE t.t_tree
                       an == create_node_avltree(d_name, d_data)
                       with_tree == [reg.ts EXCEPT !.slots[pos + 1].t_tree = at]
                   IN IF mem.oom = "node"
                        THEN [Result(with_tree, reg.cnt, -1, NoFrees)
                                EXCEPT !.failed = "node"]
                        ELSE add_entry(reg.ts, reg.cnt, pos, at, an, fn)

\* ---- find_name_id_type_katcp ----
find_name_id_type_katcp(ts, size, str) ==
  binary_search_type_list_katcp(ts, size, str)

\* ---- find_name_type_katcp, get_key_data_type_katcp ----
get_key_data_type_katcp(ts, size, type, key) ==
  LET bs == find_name_id_type_katcp(ts, size, type)
  IN IF bs.fault THEN Crash(ts, size)
     ELSE IF bs.rv < 0 THEN Result(ts, size, NULL, NoFrees)
     ELSE LET t == Deref(ts.slots, bs.rv)
          IN IF t.t_tree.null THEN Result(ts, size, NULL, NoFrees)
             ELSE Result(ts, size, find_data_avltree(t.t_tree, key), NoFrees)

\* ---- get_id_type_katcp ----
\* if (id >= size) return NULL; return ts[id]: the only test is the upper
\* one, so a negative id reads below the array, and any id below size reads
\* the array wherever s->s_type points
get_id_type_katcp(ts, size, id) ==
  IF id >= size THEN [fault |-> FALSE, type |-> NullSlot]
  ELSE IF ~Readable(ts, id) THEN [fault |-> TRUE, type |-> NullSlot]
  ELSE [fault |-> FALSE,
        type |-> IF ts.slots[id + 1] = AliasSlot
                   THEN Deref(ts.slots, id) ELSE ts.slots[id + 1]]

\* ---- print_type_katcp ----
\* one record: the type's name, then its keys in order
print_type_katcp(t) ==
  [name |-> t.t_name,
   keys |-> IF t.t_tree.null THEN <<>> ELSE print_inorder_avltree(t.t_tree)]

\* ---- print_types_katcp ----
\* stale_null: a slot read from a released array still reads as NULL.
\* A NULL slot prints nothing; a slot that points to a destroyed descriptor
\* is read through
print_types_katcp(ts, size, stale_null) ==
  IF ts.st = "null" THEN [fault |-> FALSE, out |-> <<>>]
  ELSE IF ts.st = "freed"
    THEN [fault |-> size > 0 /\ ~stale_null, out |-> <<>>]
  ELSE IF \E i \in 0..(size - 1) :
            ts.slots[i + 1] # NullSlot /\ ~Live(ts.slots, i)
    THEN [fault |-> TRUE, out |-> <<>>]
  ELSE LET idx == SelectSeq([i \in 1..size |-> i - 1],
                            LAMBDA i : ts.slots[i + 1] # NullSlot)
       IN [fault |-> FALSE,
           out |-> [k \in 1..Len(idx) |->
                      print_type_katcp(Deref(ts.slots, idx[k]))]]

\* ---- destroy_type_list_katcp ----
RECURSIVE SumFrees(_)
SumFrees(fs) == IF fs = <<>> THEN NoFrees ELSE AddFrees(Head(fs), SumFrees(Tail(fs)))

\* first loop: every descriptor's tree is destroyed with its free callback
\* and its t_tree cleared; second loop: destroy_type_katcp on every slot.
\* Both skip a NULL slot; a pointer held twice is released twice, a pointer
\* to a destroyed descriptor is read through
destroy_type_list_keeps_tree(ts, size) ==
  IF ts.st = "null" THEN Result(ts, size, 0, NoFrees)
  ELSE IF ts.st = "freed" THEN Crash(ts, size)
  ELSE IF \E i \in 1..size : ts.slots[i] \in {AliasSlot, DanglingSlot}
    THEN Crash(ts, size)
  ELSE
    LET live == SelectSeq(ts.slots, IsType)
        first == [i \in 1..Len(live) |-> destroy_avltree(live[i].t_tree,
                                                         live[i].t_free)]
        second == [i \in 1..Len(live) |-> destroy_type_katcp(live[i])]
    IN Result([st |-> "null", slots |-> <<>>], 0, 0,
              AddFrees(SumFrees(first), SumFrees(second)))

destroy_type_list_katcp(ts, size) ==
  IF ts.st = "null" THEN Result(ts, size, 0, NoFrees)
  ELSE IF ts.st = "freed" THEN Crash(ts, size)
  ELSE IF \E i \in 1..size : ts.slots[i] \in {AliasSlot, DanglingSlot}
    THEN Crash(ts, size)
  ELSE
    LET live == SelectSeq(ts.slots, IsType)
        first == [i \in 1..Len(live) |-> destroy_avltree(live[i].t_tree,
                                                         live[i].t_free)]
        cleared == [i \in 1..Len(live) |-> [live[i] EXCEPT !.t_tree = NoTree]]
        second == [i \in 1..Len(live) |-> destroy_type_katcp(cleared[i])]
    IN Result([st |-> "null", slots |-> <<>>], 0, 0,
              AddFrees(SumFrees(first), SumFrees(second)))

\* ---- the state machine ----
Ret(op, tname, key, data, fn, rv, out) ==
  [op |-> op, tname |-> tname, key |-> key, data |-> data, fn |-> fn,
   rv |-> rv, out |-> out]

Init ==
  /\ s_type = [st |-> "null", slots |-> <<>>]
  /\ s_type_count = 0
  /\ ret = Ret("startup", <<>>, <<>>, NULL, NoCallbacks, 0, <<>>)
  /\ freed = NoFrees
  /\ fault = FALSE
  /\ failed = "none"
  /\ leaked = {}
  /\ called = {}
  /\ stored = {}

\* the outcome r of an operation becomes the shared state
Commit(r) ==
  /\ s_type' = r.ts
  /\ s_type_count' = r.cnt
  /\ freed' = r.frees
  /\ fault' = r.fault
  /\ failed' = r.failed
  /\ leaked' = r.leak

\* the number of entries the stores of ts hold together
RECURSIVE CountEntries(_)
CountEntries(slots) ==
  IF slots = <<>> THEN 0
  ELSE (IF IsType(Head(slots)) THEN Cardinality(Head(slots).t_tree.nodes) ELSE 0)
         + CountEntries(Tail(slots))

\* the values some store holds: they are no longer the caller's to hand over
OwnedIn(ts) ==
  {n.data : n \in UNION {ts.slots[i].t_tree.nodes :
                           i \in {k \in 1..Len(ts.slots) : IsType(ts.slots[k])}}}

Owned == OwnedIn(s_type)

RegisterCall(name, fn) ==
  /\ ~fault
  /\ \E r \in {register_name_type_katcp(s_type, s_type_count, name, fn, NoFailure)} :
        /\ Commit(r)
        /\ ret' = Ret("register_name", name, <<>>, NULL, fn, r.rv, <<>>)

DeregisterCall(name, zero_frees) ==
  /\ ~fault
  /\ \E r \in {deregister_type_katcp(s_type, s_type_count, name, zero_frees,
                                     "none")} :
        /\ Commit(r)
        /\ ret' = Ret("deregister", name, <<>>, NULL, NoCallbacks, r.rv, <<>>)

\* d_data is the caller's to hand over: NULL, or a value no store holds
StoreCall(t_name, d_name, d_data, fn) ==
  /\ ~fault
  /\ d_data = NULL \/ d_data \notin Owned
  /\ \E r \in {store_data_type_katcp(s_type, s_type_count, t_name, d_name,
                                    d_data, fn, NoFailure)} :
        /\ Commit(r)
        /\ ret' = Ret("store_data", t_name, d_name, d_data, fn, r.rv, <<>>)

Register(name, fn) ==
  RegisterCall(name, fn) /\ UNCHANGED <<called, stored>>

Deregister(name) ==
  /\ \E zero_frees \in BOOLEAN : DeregisterCall(name, zero_frees)
  /\ UNCHANGED <<called, stored>>

Store(t_name, d_name, d_data, fn) ==
  /\ StoreCall(t_name, d_name, d_data, fn)
  /\ CountEntries(s_type'.slots) <= MaxEntries
  /\ UNCHANGED <<called, stored>>

FindName(str) ==
  /\ ~fault
  /\ \E r \in {find_name_id_type_katcp(s_type, s_type_count, str)} :
        /\ fault' = r.fault
        /\ ret' = Ret("find_name_id", str, <<>>, NULL, NoCallbacks, r.rv, <<>>)
  /\ freed' = NoFrees
  /\ failed' = "none"
  /\ leaked' = {}
  /\ UNCHANGED <<s_type, s_type_count, called, stored>>

Lookup(type, key) ==
  /\ ~fault
  /\ \E r \in {get_key_data_type_katcp(s_type, s_type_count, type, key)} :
        /\ Commit(r)
        /\ ret' = Ret("get_key_data", type, key, NULL, NoCallbacks, r.rv, <<>>)
  /\ UNCHANGED <<called, stored>>

PrintTypes ==
  /\ ~fault
  /\ \E stale_null \in BOOLEAN :
       \E r \in {print_types_katcp(s_type, s_type_count, stale_null)} :
          /\ fault' = r.fault
          /\ ret' = Ret("print_types", <<>>, <<>>, NULL, NoCallbacks, 0, r.out)
  /\ freed' = NoFrees
  /\ failed' = "none"
  /\ leaked' = {}
  /\ UNCHANGED <<s_type, s_type_count, called, stored>>

Teardown ==
  /\ ~fault
  /\ \E r \in {destroy_type_list_katcp(s_type, s_type_count)} :
        /\ Commit(r)
        /\ ret' = Ret("destroy_type_list", <<>>, <<>>, NULL, NoCallbacks, r.rv, <<>>)
  /\ UNCHANGED <<called, stored>>

\* every operation, any order, any arguments
Next ==
  \/ \E name \in Names, fn \in CallbackSets : Register(name, fn)
  \/ \E name \in Names : Deregister(name)
  \/ \E t \in Names, k \in Keys, v \in Values, fn \in CallbackSets : Store(t, k, v, fn)
  \/ \E name \in Names : FindName(name)
  \/ \E t \in Names, k \in Keys : Lookup(t, k)
  \/ PrintTypes
  \/ Teardown

Spec == Init /\ [][Next]_vars

\* the same operations over two type names and one key, with every callback set
NextCallbacks ==
  \/ \E name \in {<<1>>, <<2>>}, fn \in AllCallbackSets : Register(name, fn)
  \/ \E name \in {<<1>>, <<2>>} : Deregister(name)
  \/ \E t \in {<<1>>, <<2>>}, v \in Values, fn \in AllCallbackSets :
       Store(t, <<1>>, v, fn)
  \/ \E t \in {<<1>>, <<2>>} : Lookup(t, <<1>>)
  \/ PrintTypes
  \/ Teardown

SpecCallbacks == Init /\ [][NextCallbacks]_vars

\* the operations that create and release entries, over two type names
NextRelease ==
  \/ \E name \in {<<1>>, <<2>>}, fn \in CallbackSets : Register(name, fn)
  \/ \E name \in {<<1>>, <<2>>} : Deregister(name)
  \/ \E t \in {<<1>>, <<2>>}, k \in Keys, v \in Values, fn \in CallbackSets :
       Store(t, k, v, fn)
  \/ Teardown

SpecRelease == Init /\ [][NextRelease]_vars

\* register_at with a position and a name of the caller's choice, the empty
\* name included
RetAt(tid, tname, fn, rv) ==
  [op |-> "register_at", tname |-> tname, key |-> <<>>, data |-> NULL,
   fn |-> fn, rv |-> rv, out |-> <<>>, tid |-> tid]

RegisterAt(tid, tname, fn) ==
  /\ ~fault
  /\ s_type_count < MaxTypes
  /\ \E r \in {register_at_id_type_katcp(s_type, s_type_count, tid, tname, fn,
                                         NoFailure)} :
        /\ Commit(r)
        /\ ret' = RetAt(tid, tname, fn, r.rv)
  /\ UNCHANGED <<called, stored>>

AtNames == {<<>>, <<1>>, <<2>>}

NextAt ==
  \/ \E tid \in (-1)..(s_type_count + 1), name \in AtNames, fn \in CallbackSets :
       RegisterAt(tid, name, fn)
  \/ \E name \in AtNames, fn \in CallbackSets :
       Register(name, fn) /\ s_type_count' <= MaxTypes
  \/ \E name \in AtNames : Deregister(name)
  \/ \E t \in AtNames, v \in Values :
       Store(t, <<1>>, v, NoCallbacks) /\ s_type_count' <= MaxTypes
  \/ Teardown

SpecAt == Init /\ [][NextAt]_vars

\* the operations with the allocations they make failing or not
Mems ==
  [oom : {"none", "array", "type", "name", "tree", "node"}, moved : {FALSE}]
    \cup [oom : {"type", "name", "tree"}, moved : {TRUE}]

RegisterAlloc(name, fn, mem) ==
  /\ ~fault
  /\ \E r \in {register_name_type_katcp(s_type, s_type_count, name, fn, mem)} :
        /\ Commit(r)
        /\ ret' = Ret("register_name", name, <<>>, NULL, fn, r.rv, <<>>)
  /\ UNCHANGED <<called, stored>>

DeregisterAlloc(name, zero_frees, oom) ==
  /\ ~fault
  /\ \E r \in {deregister_type_katcp(s_type, s_type_count, name, zero_frees,
                                     oom)} :
        /\ Commit(r)
        /\ ret' = Ret("deregister", name, <<>>, NULL, NoCallbacks, r.rv, <<>>)
  /\ UNCHANGED <<called, stored>>

StoreAlloc(t_name, d_name, d_data, fn, mem) ==
  /\ ~fault
  /\ d_data = NULL \/ d_data \notin Owned
  /\ \E r \in {store_data_type_katcp(s_type, s_type_count, t_name, d_name,
                                    d_data, fn, mem)} :
        /\ Commit(r)
        /\ ret' = Ret("store_data", t_name, d_name, d_data, fn, r.rv, <<>>)
  /\ CountEntries(s_type'.slots) <= MaxEntries
  /\ UNCHANGED <<called, stored>>

NextAlloc ==
  \/ \E name \in {<<1>>, <<2>>}, fn \in CallbackSets, mem \in Mems :
       RegisterAlloc(name, fn, mem) /\ s_type_count' <= MaxTypes
  \/ \E name \in {<<1>>, <<2>>}, zero_frees \in BOOLEAN, oom \in {"none", "array"} :
       DeregisterAlloc(name, zero_frees, oom)
  \/ \E t \in {<<1>>, <<2>>}, v \in Values, fn \in CallbackSets, mem \in Mems :
       StoreAlloc(t, <<1>>, v, fn, mem) /\ s_type_count' <= MaxTypes
  \/ \E t \in {<<1>>, <<2>>} : Lookup(t, <<1>>)
  \/ PrintTypes
  \/ Teardown

SpecAlloc == Init /\ [][NextAlloc]_vars

\* get_by_index with an index of the caller's choice, next to the
\* operations that change what the slots hold
RetId(id, t) ==
  [op |-> "get_id", tname |-> <<>>, key |-> <<>>, data |-> NULL,
   fn |-> NoCallbacks, rv |-> IF t = NullSlot THEN NULL ELSE 1, out |-> <<>>,
   id |-> id, type |-> t]

GetId(id) ==
  /\ ~fault
  /\ \E r \in {get_id_type_katcp(s_type, s_type_count, id)} :
        /\ fault' = r.fault
        /\ ret' = RetId(id, r.type)
  /\ freed' = NoFrees
  /\ failed' = "none"
  /\ leaked' = {}
  /\ UNCHANGED <<s_type, s_type_count, called, stored>>

NextIndex ==
  \/ \E name \in Names, fn \in CallbackSets : Register(name, fn)
  \/ \E name \in Names : Deregister(name)
  \/ \E id \in (-1)..(s_type_count + 1) : GetId(id)
  \/ \E name \in Names : FindName(name)
  \/ Teardown

SpecIndex == Init /\ [][NextIndex]_vars

\* register_by_name calls only, with pairwise distinct names
RegisterDistinct(name, fn) ==
  /\ name \notin called
  /\ RegisterCall(name, fn)
  /\ called' = called \cup {name}
  /\ UNCHANGED stored

NextRegister == \E name \in Names, fn \in AllCallbackSets : RegisterDistinct(name, fn)

SpecRegister == Init /\ [][NextRegister]_vars

\* store calls only, all with the empty callback set, the successful ones
\* logged, and print_all
StoreLogged(t_name, d_name, d_data, fn) ==
  /\ StoreCall(t_name, d_name, d_data, fn)
  /\ CountEntries(s_type'.slots) <= MaxStored
  /\ stored' = IF ret'.rv = 0 THEN stored \cup {<<t_name, d_name>>} ELSE stored
  /\ UNCHANGED called

NextStore ==
  \/ \E t \in Names, k \in Keys \cup {<<1, 2>>}, v \in Values :
       StoreLogged(t, k, v, NoCallbacks)
  \/ PrintTypes

SpecStore == Init /\ [][NextStore]_vars

\* ---- vocabulary of the properties ----
\* a < b in byte-wise lexicographic order
LexLess(a, b) ==
  \E i \in 1..(Len(b)) :
    /\ i <= Len(a) + 1
    /\ \A j \in 1..(i - 1) : a[j] = b[j]
    /\ i <= Len(a) => a[i] < b[i]

\* the registry is a sequence of count descriptors, strictly ascending by name
SortedAscending(ts, size) ==
  /\ ts.st # "freed"
  /\ Len(ts.slots) = size
  /\ \A i \in 1..(size - 1) : LexLess(ts.slots[i].t_name, ts.slots[i + 1].t_name)

Registered(ts, size, name) ==
  /\ ts.st = "valid"
  /\ \E i \in 1..Len(ts.slots) :
       i <= size /\ IsType(ts.slots[i]) /\ ts.slots[i].t_name = name

DescOf(ts, name) ==
  ts.slots[CHOOSE i \in 1..Len(ts.slots) :
             IsType(ts.slots[i]) /\ ts.slots[i].t_name = name]

Callbacks(t) ==
  [fn_print |-> t.t_print, fn_free |-> t.t_free, fn_copy |-> t.t_copy,
   fn_compare |-> t.t_compare, fn_parse |-> t.t_parse]

RegisteredNames(ts) ==
  {ts.slots[i].t_name : i \in {j \in 1..Len(ts.slots) : IsType(ts.slots[j])}}

\* C1: after every call of a sequence of register_by_name calls with
\* pairwise distinct names, starting from the empty registry, the call has
\* succeeded, the registry is sorted ascending by name, holds exactly the
\* names registered, and count is the number of calls made so far.
C1_SortedAndCounted ==
  /\ ~fault
  /\ SortedAscending(s_type, s_type_count)
  /\ s_type_count = Cardinality(called)
  /\ RegisteredNames(s_type) = called
  /\ ret.op = "register_name" => ret.rv >= 0

\* three calls made, the last one inserted between the two others
C1_Witness ==
  /\ Cardinality(called) = 3
  /\ ret.op = "register_name" /\ ret.rv = 1
  /\ s_type_count = 3

\* C2: register_by_name with a name that is already registered returns a
\* negative result and leaves the registry as it was: same count, same
\* descriptors in the same order with the same callbacks and stores.
C2_DuplicateRejected ==
  [][(ret'.op = "register_name" /\ Registered(s_type, s_type_count, ret'.tname))
       => /\ ret'.rv < 0
          /\ ~fault'
          /\ s_type_count' = s_type_count
          /\ s_type' = s_type]_vars

\* a registered name was registered again, with other callbacks, next to
\* another type, while a store held an entry
C2_Witness ==
  /\ ret.op = "register_name" /\ ret.rv < 0
  /\ Registered(s_type, s_type_count, ret.tname)
  /\ Callbacks(DescOf(s_type, ret.tname)) # ret.fn
  /\ s_type_count >= 2
  /\ s_type.slots[1].t_tree.nodes # {}

\* C3: on a registry sorted strictly ascending by name (the empty one
\* included) find_by_name returns the index of the name when it is
\* registered, and otherwise -(p + 1), p the number of registered names
\* smaller than the searched one; -1 on the empty registry.
C3_FindByName ==
  (ret.op = "find_name_id" /\ SortedAscending(s_type, s_type_count))
    => /\ ~fault
       /\ IF Registered(s_type, s_type_count, ret.tname)
            THEN /\ ret.rv >= 0 /\ ret.rv < s_type_count
                 /\ s_type.slots[ret.rv + 1].t_name = ret.tname
            ELSE ret.rv = 0 - (Cardinality({i \in 1..s_type_count :
                                  LexLess(s_type.slots[i].t_name, ret.tname)}) + 1)
       /\ s_type_count = 0 => ret.rv = -1

\* a name that is not registered was searched in a registry of two: it
\* belongs between them
C3_Witness ==
  /\ ret.op = "find_name_id" /\ ret.rv = -2
  /\ s_type_count = 2
  /\ ~Registered(s_type, s_type_count, ret.tname)

\* C4: a store on a registered type with a callback set that differs from
\* the type's in at least one of the five callbacks fails, and changes
\* neither the type's store nor the registry.
C4_MismatchRejected ==
  [][(/\ ret'.op = "store_data"
      /\ Registered(s_type, s_type_count, ret'.tname)
      /\ Callbacks(DescOf(s_type, ret'.tname)) # ret'.fn)
       => /\ ret'.rv = -1
          /\ ~fault'
          /\ s_type_count' = s_type_count
          /\ s_type' = s_type]_vars

\* a store with a callback set whose parse callback alone differs was
\* refused on a type that holds an entry
C4_Witness ==
  /\ ret.op = "store_data" /\ ret.rv = -1
  /\ Registered(s_type, s_type_count, ret.tname)
  /\ Callbacks(DescOf(s_type, ret.tname)).fn_parse # ret.fn.fn_parse
  /\ Callbacks(DescOf(s_type, ret.tname)).fn_free = ret.fn.fn_free
  /\ DescOf(s_type, ret.tname).t_tree.nodes # {}

\* C5: a store naming a type that is not registered succeeds, registers
\* the type with the supplied callbacks at its sorted position, and a
\* lookup of the key right after it returns the value stored.
C5_AutoRegisterRoundTrip ==
  [][(ret'.op = "store_data" /\ ~Registered(s_type, s_type_count, ret'.tname))
       => /\ ret'.rv = 0
          /\ ~fault'
          /\ s_type_count' = s_type_count + 1
          /\ Registered(s_type', s_type_count', ret'.tname)
          /\ Callbacks(DescOf(s_type', ret'.tname)) = ret'.fn
          /\ SortedAscending(s_type', s_type_count')
          /\ get_key_data_type_katcp(s_type', s_type_count', ret'.tname,
                                     ret'.key).rv = ret'.data]_vars

\* the same round trip, for the stores that find the array allocated or
\* not yet allocated: the only stores that miss it find the array released
C5_RoundTripUnlessReleased ==
  [][(/\ ret'.op = "store_data"
      /\ ~Registered(s_type, s_type_count, ret'.tname)
      /\ s_type.st # "freed")
       => /\ ret'.rv = 0
          /\ ~fault'
          /\ s_type_count' = s_type_count + 1
          /\ Registered(s_type', s_type_count', ret'.tname)
          /\ Callbacks(DescOf(s_type', ret'.tname)) = ret'.fn
          /\ SortedAscending(s_type', s_type_count')
          /\ get_key_data_type_katcp(s_type', s_type_count', ret'.tname,
                                     ret'.key).rv = ret'.data]_vars

\* the invocations of its free callback that release the entries of t, one
\* per entry
ExpectedFrees(t) ==
  [v \in Values |->
     IF t.t_free # NULL THEN Cardinality({n \in t.t_tree.nodes : n.data = v}) ELSE 0]

RECURSIVE TotalFrees(_, _)
TotalFrees(fr, vs) ==
  IF vs = {} THEN 0
  ELSE LET v == CHOOSE x \in vs : TRUE IN fr[v] + TotalFrees(fr, vs \ {v})

\* C6: deregister of a type holding N entries invokes the type's free
\* callback (when the type has one) exactly N times, once per entry, and the
\* type is gone; teardown invokes it exactly once per entry of every type;
\* no value is released twice, none while a registered type still holds it,
\* and a value that leaves a store whose type has a free callback is released.
C6_ReleasedOnce ==
  [][/\ (ret'.op = "deregister" /\ Registered(s_type, s_type_count, ret'.tname))
          => LET t == DescOf(s_type, ret'.tname)
             IN /\ freed' = ExpectedFrees(t)
                /\ t.t_free # NULL
                     => TotalFrees(freed', Values) = Cardinality(t.t_tree.nodes)
                /\ ~Registered(s_type', s_type_count', ret'.tname)
     /\ (ret'.op = "destroy_type_list" /\ s_type.st = "valid")
          => /\ freed' = SumFrees([i \in 1..s_type_count |->
                                     ExpectedFrees(s_type.slots[i])])
             /\ s_type'.slots = <<>>
     /\ \A v \in 1..NumValues :
          /\ freed'[v] <= 1
          /\ freed'[v] = 1 => v \notin OwnedIn(s_type')
          /\ (/\ v \in OwnedIn(s_type) /\ v \notin OwnedIn(s_type')
              /\ \E i \in 1..Len(s_type.slots) :
                   /\ s_type.slots[i].t_free # NULL
                   /\ \E n \in s_type.slots[i].t_tree.nodes : n.data = v)
               => freed'[v] = 1]_vars

\* a type with a free callback and two entries, a value object and a NULL,
\* was deregistered: two invocations
C6_Witness ==
  /\ ret.op = "deregister" /\ ret.rv = 0
  /\ freed[1] = 1 /\ freed[0] = 1
  /\ s_type_count >= 1

\* C7: deregister of a registered name, also when it is the only one,
\* returns 0, decreases count by one, removes that descriptor and keeps the
\* others in their order, and the name is not found afterwards; for a name
\* that is not registered it fails and changes nothing.
C7_Deregister ==
  [][ret'.op = "deregister"
       => IF Registered(s_type, s_type_count, ret'.tname)
            THEN /\ ret'.rv = 0
                 /\ ~fault'
                 /\ s_type_count' = s_type_count - 1
                 /\ s_type'.slots =
                      SelectSeq(s_type.slots, LAMBDA t : t.t_name # ret'.tname)
                 /\ find_name_id_type_katcp(s_type', s_type_count', ret'.tname).rv < 0
                 /\ ~find_name_id_type_katcp(s_type', s_type_count', ret'.tname).fault
            ELSE /\ ret'.rv < 0
                 /\ s_type' = s_type
                 /\ s_type_count' = s_type_count]_vars

\* the same for the deregistrations that leave a type behind: the one that
\* fails is that of the only type
C7_DeregisterOneOfSeveral ==
  [][(ret'.op = "deregister" /\ (s_type_count > 1 \/ s_type_count = 0))
       => IF Registered(s_type, s_type_count, ret'.tname)
            THEN /\ ret'.rv = 0
                 /\ ~fault'
                 /\ s_type_count' = s_type_count - 1
                 /\ s_type'.slots =
                      SelectSeq(s_type.slots, LAMBDA t : t.t_name # ret'.tname)
                 /\ find_name_id_type_katcp(s_type', s_type_count', ret'.tname).rv < 0
                 /\ ~find_name_id_type_katcp(s_type', s_type_count', ret'.tname).fault
            ELSE /\ ret'.rv < 0
                 /\ s_type' = s_type
                 /\ s_type_count' = s_type_count]_vars

\* C8: while a type name stays registered its five callbacks are the ones
\* it was created with, whatever operation the step is; and a type is
\* created, by register_by_name or by a store, with the callbacks supplied.
C8_FrozenCallbacks ==
  [][\A n \in Names :
       /\ (Registered(s_type, s_type_count, n) /\ Registered(s_type', s_type_count', n))
            => Callbacks(DescOf(s_type', n)) = Callbacks(DescOf(s_type, n))
       /\ (~Registered(s_type, s_type_count, n) /\ Registered(s_type', s_type_count', n))
            => /\ ret'.op \in {"register_name", "store_data"}
               /\ ret'.tname = n
               /\ Callbacks(DescOf(s_type', n)) = ret'.fn]_vars

\* a type created with its compare callback set has refused a store that
\* came with no callbacks, and still has it set
C8_Witness ==
  /\ ret.op = "store_data" /\ ret.rv = -1 /\ ret.fn = NoCallbacks
  /\ Registered(s_type, s_type_count, ret.tname)
  /\ DescOf(s_type, ret.tname).t_compare # NULL
  /\ s_type_count = 2

TypesUsed == {p[1] : p \in stored}

KeysOf(n) == {p[2] : p \in {q \in stored : q[1] = n}}

\* q lists the strings of S, each once, in ascending order
AscendingSeqOf(q, S) ==
  /\ Len(q) = Cardinality(S)
  /\ {q[i] : i \in 1..Len(q)} = S
  /\ \A i \in 1..(Len(q) - 1) : LexLess(q[i], q[i + 1])

\* C9: after any sequence of store calls on the empty registry, count is
\* the number of distinct type names of the successful ones, each store
\* holds exactly the keys stored under its type, and print_all emits one
\* record per type name, in ascending order, each with exactly the keys of
\* the type in ascending order.
C9_PrintAll ==
  /\ ~fault
  /\ s_type_count = Cardinality(TypesUsed)
  /\ \A i \in 1..Len(s_type.slots) :
       {n.key : n \in s_type.slots[i].t_tree.nodes} = KeysOf(s_type.slots[i].t_name)
  /\ ret.op = "print_types"
       => /\ AscendingSeqOf([i \in 1..Len(ret.out) |-> ret.out[i].name], TypesUsed)
          /\ \A i \in 1..Len(ret.out) :
               AscendingSeqOf(ret.out[i].keys, KeysOf(ret.out[i].name))

\* print_all after stores into two types, the first of them with two keys
C9_Witness ==
  /\ ret.op = "print_types"
  /\ Len(ret.out) = 2
  /\ Len(ret.out[1].keys) = 2
  /\ Len(ret.out[2].keys) = 1

\* C10: teardown on any registry leaves count 0 and the sequence empty; a
\* print_all after it emits nothing and fails in nothing, a find_by_name of
\* any name is not-found, and a second teardown changes nothing.
C10_Teardown ==
  [][ret'.op = "destroy_type_list"
       => /\ ~fault'
          /\ s_type_count' = 0
          /\ s_type'.slots = <<>>
          /\ \A b \in BOOLEAN :
               print_types_katcp(s_type', s_type_count', b)
                 = [fault |-> FALSE, out |-> <<>>]
          /\ \A n \in Names :
               /\ find_name_id_type_katcp(s_type', s_type_count', n).rv < 0
               /\ ~find_name_id_type_katcp(s_type', s_type_count', n).fault
          /\ destroy_type_list_katcp(s_type', s_type_count')
               = Result(s_type', s_type_count', 0, NoFrees)]_vars

\* the same for the teardowns that find the array allocated or not yet
\* allocated: the only teardown that misses it finds the array released
C10_TeardownUnlessReleased ==
  [][(ret'.op = "destroy_type_list" /\ s_type.st # "freed")
       => /\ ~fault'
          /\ s_type_count' = 0
          /\ s_type'.slots = <<>>
          /\ \A b \in BOOLEAN :
               print_types_katcp(s_type', s_type_count', b)
                 = [fault |-> FALSE, out |-> <<>>]
          /\ \A n \in Names :
               /\ find_name_id_type_katcp(s_type', s_type_count', n).rv < 0
               /\ ~find_name_id_type_katcp(s_type', s_type_count', n).fault
          /\ destroy_type_list_katcp(s_type', s_type_count')
               = Result(s_type', s_type_count', 0, NoFrees)]_vars

\* the operations that change the registry
MutatingOps ==
  {"register_at", "register_name", "store_data", "deregister", "destroy_type_list"}

NoSharedName(ts) ==
  \A i, j \in 1..Len(ts.slots) :
    i # j => ts.slots[i].t_name # ts.slots[j].t_name

\* C11: in every state reached when a registry-mutating operation
\* (register_at, register_by_name, store, deregister, teardown) has
\* completed, the descriptor sequence is sorted strictly ascending by name
\* and no two descriptors share a name.
C11_SortedAfterMutation ==
  (ret.op \in MutatingOps /\ ~fault)
    => /\ SortedAscending(s_type, s_type_count)
       /\ NoSharedName(s_type)

\* the same in the states where the array has not been released under the
\* registry
C11_SortedUnlessReleased ==
  (ret.op \in MutatingOps /\ ~fault /\ s_type.st # "freed")
    => /\ SortedAscending(s_type, s_type_count)
       /\ NoSharedName(s_type)

\* C12: register_at, register_by_name and the auto-registration of a store,
\* called with the empty name, fail and add no descriptor: count and
\* sequence are unchanged.
C12_EmptyNameRejected ==
  [][(/\ ret'.tname = <<>>
      /\ \/ ret'.op \in {"register_at", "register_name"}
         \/ ret'.op = "store_data" /\ ~Registered(s_type, s_type_count, <<>>))
       => /\ ret'.rv < 0
          /\ s_type_count' = s_type_count
          /\ s_type' = s_type]_vars

\* the allocations of a registration
RegistrationAllocs == {"array", "type", "name", "tree"}

\* C13: when a registration (register_by_name, or the auto-registration of
\* a store) fails because one of its allocations fails (the array, the
\* descriptor, the name, the store), the registry afterwards refers to
\* exactly the descriptors it referred to before, in the same order, with
\* the same count, all of them valid, and nothing of the new descriptor
\* remains allocated.
C13_RegistrationFailureLeavesRegistry ==
  [][(ret'.op \in {"register_name", "store_data"} /\ failed' \in RegistrationAllocs)
       => /\ ret'.rv < 0
          /\ ~fault'
          /\ s_type_count' = s_type_count
          /\ s_type' = s_type
          /\ leaked' \cap {"type", "name", "tree"} = {}]_vars

\* what does hold then: the call fails, count is unchanged, nothing of the
\* new descriptor remains allocated, and the registry either is as before
\* or is left pointing at the block the growing realloc released
C13_FailureKeepsCount ==
  [][(ret'.op \in {"register_name", "store_data"} /\ failed' \in RegistrationAllocs)
       => /\ ret'.rv < 0
          /\ ~fault'
          /\ s_type_count' = s_type_count
          /\ s_type' = s_type \/ (s_type.st = "valid" /\ s_type'.st = "freed")
          /\ failed' = "array" => s_type' = s_type
          /\ leaked' \cap {"type", "name", "tree"} = {}]_vars

\* every slot below count holds a live descriptor of its own
DistinctLive(ts, size) ==
  /\ ts.st = "valid" \/ size = 0
  /\ \A i \in 1..size : i <= Len(ts.slots) /\ IsType(ts.slots[i])

\* C14: when deregister fails because the realloc that shrinks the array
\* fails, the registry is as it was: the named type is still registered
\* with its entries, count is unchanged, and every slot below count refers
\* to a live descriptor of its own.
C14_ShrinkFailureLeavesRegistry ==
  [][(ret'.op = "deregister" /\ failed' = "array")
       => /\ ret'.rv < 0
          /\ ~fault'
          /\ s_type_count' = s_type_count
          /\ s_type' = s_type
          /\ DistinctLive(s_type', s_type_count')]_vars

\* what does hold then: the call fails with count unchanged, and the slots
\* that held the other descriptors are the first count - 1 slots, in order
C14_ShrinkFailureKeepsOthers ==
  [][(ret'.op = "deregister" /\ failed' = "array")
       => /\ ret'.rv < 0
          /\ ~fault'
          /\ s_type_count' = s_type_count
          /\ Len(s_type'.slots) = s_type_count
          /\ \E pos \in 1..s_type_count :
               /\ Deref(s_type.slots, pos - 1).t_name = ret'.tname
               /\ \A k \in 1..(s_type_count - 1) :
                    IsType(s_type'.slots[k])
                      => s_type'.slots[k]
                           = s_type.slots[IF k < pos THEN k ELSE k + 1]]_vars

\* C15: a store on a registered type, with the type's callbacks, of a key
\* the type's store already holds fails and leaves the store as it was: a
\* lookup of the key still returns the value stored first and the store has
\* as many entries as before.
C15_DuplicateKeyRejected ==
  [][(/\ ret'.op = "store_data"
      /\ Registered(s_type, s_type_count, ret'.tname)
      /\ Callbacks(DescOf(s_type, ret'.tname)) = ret'.fn
      /\ \E n \in DescOf(s_type, ret'.tname).t_tree.nodes : n.key = ret'.key)
       => /\ ret'.rv < 0
          /\ ~fault'
          /\ s_type_count' = s_type_count
          /\ s_type' = s_type
          /\ Cardinality(DescOf(s_type', ret'.tname).t_tree.nodes)
               = Cardinality(DescOf(s_type, ret'.tname).t_tree.nodes)
          /\ get_key_data_type_katcp(s_type', s_type_count', ret'.tname,
                                     ret'.key).rv
               = find_data_avltree(DescOf(s_type, ret'.tname).t_tree, ret'.key)]_vars

\* a store of another value under a key the type holds was refused, and the
\* refused value went through the type's free callback
C15_Witness ==
  /\ ret.op = "store_data" /\ ret.rv = -1
  /\ Registered(s_type, s_type_count, ret.tname)
  /\ Callbacks(DescOf(s_type, ret.tname)) = ret.fn
  /\ \E n \in DescOf(s_type, ret.tname).t_tree.nodes :
       n.key = ret.key /\ n.data # ret.data
  /\ ret.data # NULL /\ freed[ret.data] = 1

\* the value lookup is to return: the one stored under the key in the store
\* of the type, NULL (not found) when the type is not registered or its
\* store does not hold the key
StoredValue(ts, size, type, key) ==
  IF Registered(ts, size, type)
    THEN find_data_avltree(DescOf(ts, type).t_tree, key)
    ELSE NULL

\* C16: lookup fails (NULL) when the type is not registered or the key is
\* not in the type's store, returns the stored value otherwise, and in every
\* case leaves the sequence, the count, the callbacks and the stores as
\* they were.
C16_LookupReadOnly ==
  [][ret'.op = "get_key_data"
       => /\ ~fault'
          /\ ret'.rv = StoredValue(s_type, s_type_count, ret'.tname, ret'.key)
          /\ s_type' = s_type
          /\ s_type_count' = s_type_count
          /\ freed' = NoFrees]_vars

\* the same for the lookups that do not find the array released
C16_LookupUnlessReleased ==
  [][(ret'.op = "get_key_data" /\ s_type.st # "freed")
       => /\ ~fault'
          /\ ret'.rv = StoredValue(s_type, s_type_count, ret'.tname, ret'.key)
          /\ s_type' = s_type
          /\ s_type_count' = s_type_count
          /\ freed' = NoFrees]_vars

\* C17: get_by_index fails (NULL) whenever index >= count, also on the empty
\* and on the torn-down registry, returns the descriptor at position index
\* when 0 <= index < count, and for no index reads a slot outside the
\* positions 0 .. count - 1 of the sequence; it changes nothing.
C17_GetByIndexChecked ==
  [][ret'.op = "get_id"
       => /\ ~fault'
          /\ ret'.id >= s_type_count => ret'.type = NullSlot
          /\ (ret'.id >= 0 /\ ret'.id < s_type_count)
               => ret'.type = s_type.slots[ret'.id + 1]
          /\ s_type' = s_type
          /\ s_type_count' = s_type_count]_vars

\* the same for the indexes that are not negative, on a sequence that has
\* not been released
C17_GetByIndexFromZero ==
  [][(ret'.op = "get_id" /\ ret'.id >= 0 /\ s_type.st # "freed")
       => /\ ~fault'
          /\ ret'.id >= s_type_count => ret'.type = NullSlot
          /\ ret'.id < s_type_count => ret'.type = s_type.slots[ret'.id + 1]
          /\ s_type' = s_type
          /\ s_type_count' = s_type_count]_vars

\* C18: a successful register_at with 0 <= position <= count returns
\* position; the descriptor at index position then has the name and the
\* callbacks supplied and an empty store, the descriptors that were below
\* position have not moved, those that were at an index i >= position are
\* at i + 1 with their stores, and count has grown by one.
C18_RegisterAtShifts ==
  [][(/\ ret'.op = "register_at" /\ ret'.rv >= 0 /\ ~fault'
      /\ ret'.tid >= 0 /\ ret'.tid <= s_type_count)
       => /\ ret'.rv = ret'.tid
          /\ s_type_count' = s_type_count + 1
          /\ Len(s_type'.slots) = s_type_count + 1
          /\ s_type'.slots[ret'.tid + 1].t_name = ret'.tname
          /\ Callbacks(s_type'.slots[ret'.tid + 1]) = ret'.fn
          /\ s_type'.slots[ret'.tid + 1].t_tree = create_avltree
          /\ \A i \in 0..(s_type_count - 1) :
               /\ i < ret'.tid => s_type'.slots[i + 1] = s_type.slots[i + 1]
               /\ i >= ret'.tid => s_type'.slots[i + 2] = s_type.slots[i + 1]]_vars

\* a descriptor went to index 0 of a registry of one, whose descriptor, now
\* at index 1, still holds its entry
C18_Witness ==
  /\ ret.op = "register_at" /\ ret.rv = 0 /\ ret.tid = 0
  /\ s_type_count = 2
  /\ s_type.slots[1].t_tree.nodes = {}
  /\ s_type.slots[2].t_tree.nodes # {}
  /\ ret.fn # NoCallbacks

\* what a step may do to the store of type n: nothing, or add one entry under
\* a new key by a successful store naming n; the entries n held are still
\* found with their values
StoreFrame(n) ==
  /\ Registered(s_type', s_type_count', n)
  /\ \/ DescOf(s_type', n).t_tree = DescOf(s_type, n).t_tree
     \/ /\ ret'.op = "store_data" /\ ret'.tname = n /\ ret'.rv = 0
        /\ \A e \in DescOf(s_type, n).t_tree.nodes : e.key # ret'.key
        /\ DescOf(s_type', n).t_tree.nodes
             = DescOf(s_type, n).t_tree.nodes
                 \cup {[key |-> ret'.key, data |-> ret'.data]}
  /\ \A e \in DescOf(s_type, n).t_tree.nodes :
       get_key_data_type_katcp(s_type', s_type_count', n, e.key).rv = e.data

KeepsType(n) ==
  /\ Registered(s_type, s_type_count, n)
  /\ ~(ret'.op = "deregister" /\ ret'.tname = n)
  /\ ret'.op # "destroy_type_list"

\* C19: the store of a registered type T changes only by a successful store
\* naming T, which adds one entry under a new key. Every other operation
\* that is not the deregister of T or the teardown, on T or on another type,
\* leaves T registered with exactly its entries, so a lookup of a key
\* stored under T keeps returning the value stored, also when another type
\* holds the same key and when T's index shifts.
C19_StoreFrame ==
  [][\A n \in Names : KeepsType(n) => StoreFrame(n)]_vars

\* the same for the steps that do not leave s_type at a released block
C19_StoreFrameUnlessReleased ==
  [][\A n \in Names :
       KeepsType(n) /\ s_type'.st # "freed" => StoreFrame(n)]_vars

\* the type before T was deregistered: T moved from index 1 to index 0 and
\* still holds the value stored under it
C19_Witness ==
  /\ ret.op = "deregister" /\ ret.rv = 0 /\ ret.tname = <<1>>
  /\ s_type_count = 1
  /\ s_type.slots[1].t_name = <<2>>
  /\ \E e \in s_type.slots[1].t_tree.nodes : e.data # NULL

\* the place of the descriptor named n in its life cycle
TypeState(ts, size, n) ==
  IF ~Registered(ts, size, n) THEN "absent"
  ELSE IF DescOf(ts, n).t_tree.null \/ DescOf(ts, n).t_tree.nodes = {}
         THEN "empty"
         ELSE "populated"

\* a step keeps the descriptor named n where it is or moves it along one of
\* the transitions; a store that registers the type on the fly passes
\* through Registered-Empty inside the call. A descriptor that appears is
\* a new one: it holds nothing but what the call itself stored.
Lifecycle(n) ==
  LET a == TypeState(s_type, s_type_count, n)
      b == TypeState(s_type', s_type_count', n)
      named == ret'.tname = n
  IN  \/ a = b
      \/ /\ a = "absent" /\ b = "empty" /\ named /\ ret'.rv >= 0
         /\ ret'.op \in {"register_at", "register_name"}
         /\ Callbacks(DescOf(s_type', n)) = ret'.fn
      \/ /\ a = "absent" /\ b = "populated" /\ named /\ ret'.rv = 0
         /\ ret'.op = "store_data"
         /\ DescOf(s_type', n).t_tree.nodes
              = {[key |-> ret'.key, data |-> ret'.data]}
      \/ /\ a = "empty" /\ b = "populated" /\ named /\ ret'.rv = 0
         /\ ret'.op = "store_data"
      \/ /\ a \in {"empty", "populated"} /\ b = "absent"
         /\ \/ ret'.op = "deregister" /\ named /\ ret'.rv = 0
            \/ ret'.op = "destroy_type_list"

\* no read has gone to released memory and every slot below count is a slot
\* of the allocated array that holds a live descriptor
NoDestroyedVisible(ts, size, flt) ==
  /\ ~flt
  /\ \A i \in 0..(size - 1) : Readable(ts, i) /\ Live(ts.slots, i)

\* C20: each descriptor moves only along Unregistered -> Registered-Empty
\* (registration), Registered-Empty -> Registered-Populated (first
\* successful store), Registered-Populated -> Registered-Populated, and
\* Registered-* -> Destroyed (deregister or teardown); a destroyed
\* descriptor is not registered again, is returned by no query and is left
\* in no slot below count.
C20_Lifecycle ==
  [][/\ \A n \in Names : Lifecycle(n)
     /\ NoDestroyedVisible(s_type', s_type_count', fault')]_vars

\* the same for the steps that neither start nor end with s_type at a
\* released block
C20_LifecycleUnlessReleased ==
  [][(s_type.st # "freed" /\ s_type'.st # "freed")
        => /\ \A n \in Names : Lifecycle(n)
           /\ NoDestroyedVisible(s_type', s_type_count', fault')]_vars

\* a store on a type that is not registered whose entry allocation fails
\* after the registration it made
StoreFailsAfterRegistration ==
  /\ ret'.op = "store_data" /\ failed' = "node" /\ ~fault'
  /\ s_type.st # "freed"
  /\ ~Registered(s_type, s_type_count, ret'.tname)

\* C21: a store on a type that is not registered which fails on an
\* allocation while creating or inserting the entry, after it has
\* registered the type, leaves the registry as it was: the type is not
\* registered afterwards and count is unchanged.
C21_StoreFailureLeavesRegistry ==
  [][StoreFailsAfterRegistration
       => /\ ~Registered(s_type', s_type_count', ret'.tname)
          /\ s_type_count' = s_type_count
          /\ s_type' = s_type]_vars

\* what the call leaves: it returns -1 with the type registered, holding
\* the callbacks supplied and no entry, count one more, the descriptors it
\* found untouched and nothing released or left unreferenced
C21_StoreFailureKeepsType ==
  [][StoreFailsAfterRegistration
       => /\ ret'.rv = -1
          /\ s_type_count' = s_type_count + 1
          /\ TypeState(s_type', s_type_count', ret'.tname) = "empty"
          /\ Callbacks(DescOf(s_type', ret'.tname)) = ret'.fn
          /\ \A n \in Names :
                Registered(s_type, s_type_count, n)
                  => /\ Registered(s_type', s_type_count', n)
                     /\ DescOf(s_type', n) = DescOf(s_type, n)
          /\ freed' = NoFrees
          /\ leaked' = {}]_vars

====
